---------------------------- MODULE Spec2Model ----------------------------
(***************************************************************************)
(* The OTP issuance / verification subsystem of src/server.js:             *)
(*   POST /api/send-email-otp, POST /api/send-phone-otp,                   *)
(*   POST /api/verify-otp, and the helpers generateOTP, formatPhoneNumber. *)
(*                                                                         *)
(* Strings are sequences of one-character strings, so that the regular     *)
(* expressions and the phone normalisation are computed character by       *)
(* character.  The table otp_codes is a sequence of rows in insertion      *)
(* order; a row's id is its index, and the order by created_at is the      *)
(* order of insertion.  Every handler is cut at its awaits: one action for *)
(* the synchronous prefix of the handler, and one action per awaited store *)
(* or channel operation.                                                   *)
(***************************************************************************)
EXTENDS Integers, Sequences, FiniteSets

VARIABLES
    config,     \* process.env / clients built at start-up
    now,        \* the clock, in minutes
    store,      \* the table otp_codes
    req,        \* the request of each slot: in flight, or answered
    issued,     \* per row: how the request that inserted it was answered
    okCount,    \* per row: verify responses with verified:true for that row
    failCount   \* per row: failed verify requests that wrote its attempts

vars == <<config, now, store, req, issued, okCount, failCount>>

-----------------------------------------------------------------------------
(* Program constants *)

OTP_EXPIRY_MINUTES == 10
MAX_OTP_ATTEMPTS == 5
OTP_LENGTH == 6

(* Bounds of the model *)

MaxRecords == 2      \* rows ever inserted
MaxTicks == 2        \* clock ticks
MaxFailed == 2       \* no new verify once a row has this many counted failures
MaxFailedLockout == 6   \* the same, where the attempts of a row are run out
MaxRecordsLockout == 1  \* rows ever inserted, where the attempts of a row are run out
MaxRecordsFrame == 3    \* rows ever inserted, where several destinations are issued codes
RandDen == 4         \* Math.random() is sampled as k / RandDen
MaxPhoneLen == 3     \* length of the phone strings tried on formatPhoneNumber

-----------------------------------------------------------------------------
(* Strings *)

NULL == << >>

Digit == {"0", "1", "2", "3", "4", "5", "6", "7", "8", "9"}
WhiteSpace == {" ", "\t", "\n", "\r"}

DigitChar(d) ==
    CASE d = 0 -> "0" [] d = 1 -> "1" [] d = 2 -> "2" [] d = 3 -> "3"
      [] d = 4 -> "4" [] d = 5 -> "5" [] d = 6 -> "6" [] d = 7 -> "7"
      [] d = 8 -> "8" [] d = 9 -> "9"

RECURSIVE NumToString(_)
NumToString(n) ==
    IF n < 10 THEN <<DigitChar(n)>>
    ELSE Append(NumToString(n \div 10), DigitChar(n % 10))

\* /^\d+$/.test(s)
AllDigits(s) == Len(s) >= 1 /\ \A i \in 1..Len(s) : s[i] \in Digit

\* [^\s@]+ matches the whole of s
NoSpaceNoAt(s) ==
    Len(s) >= 1 /\ \A i \in 1..Len(s) : s[i] \notin (WhiteSpace \cup {"@"})

\* /^[^\s@]+@[^\s@]+\.[^\s@]+$/.test(e)
emailRegexTest(e) ==
    \E i \in 1..Len(e), j \in 1..Len(e) :
        /\ i < j
        /\ e[i] = "@"
        /\ e[j] = "."
        /\ NoSpaceNoAt(SubSeq(e, 1, i - 1))
        /\ NoSpaceNoAt(SubSeq(e, i + 1, j - 1))
        /\ NoSpaceNoAt(SubSeq(e, j + 1, Len(e)))

KeepDigitPlus(c) == c \in Digit \cup {"+"}

formatPhoneNumber(phone) ==
    LET cleaned == SelectSeq(phone, KeepDigitPlus)
    IN  IF cleaned # << >> /\ Head(cleaned) = "+"
        THEN cleaned
        ELSE <<"+", "1">> \o cleaned

\* Math.floor(100000 + Math.random() * 900000).toString(), Math.random() = k/RandDen
generateOTP(k) == NumToString(100000 + ((k * 900000) \div RandDen))

-----------------------------------------------------------------------------
(* Inputs *)

EmailA == <<"a", "@", "b", ".", "c", "o", "m">>
EmailB == <<"c", "@", "d", ".", "e", "u">>
EmailBad == <<"n", "o", "t", "-", "a", "n", "-", "e", "m", "a", "i", "l">>
PhoneUS == <<"(", "5", "5", "5", ")", " ", "1", "2", "3", "-", "4", "5", "6", "7">>
PhoneUK == <<"+", "4", "4", " ", "2", "0", " ", "7", "9", "4", "6", " ", "0", "9", "5", "8">>

\* every string of 1 to MaxPhoneLen characters that are a '+', a digit or a space
PhoneChars == {"+", "5", " "}
PhoneStrings == UNION {[1..n -> PhoneChars] : n \in 1..MaxPhoneLen}

EmailInputs == {EmailA, EmailBad, NULL}
PhoneInputs == {PhoneUS, NULL}

RandSamples == {0, RandDen - 1}
GeneratedCodes == {generateOTP(k) : k \in RandSamples}

CodeAlpha == <<"1", "2", "a", "4", "5">>
CodeShort == <<"1", "2", "3">>
CodeMixed == <<"1", "2", "3", "4", "5", "a">>

\* req.body of POST /api/verify-otp
EmailBody(email, otp) == [type |-> "email", email |-> email, phone |-> NULL, otp |-> otp]
PhoneBody(phone, otp) == [type |-> "phone", email |-> NULL, phone |-> phone, otp |-> otp]

\* well-formed bodies for the destinations that are issued codes
GoodBodies ==
    {EmailBody(EmailA, o) : o \in GeneratedCodes}
    \cup {PhoneBody(PhoneUS, o) : o \in GeneratedCodes}

\* well-formed bodies for two destinations of each kind
FrameBodies ==
    {EmailBody(e, o) : e \in {EmailA, EmailB}, o \in GeneratedCodes}
    \cup {PhoneBody(p, o) : p \in {PhoneUS, PhoneUK}, o \in GeneratedCodes}

\* bodies that the checks of the handler reject
BadBodies ==
    {EmailBody(EmailA, CodeAlpha), PhoneBody(PhoneUS, CodeShort),
     EmailBody(EmailA, CodeMixed),
     EmailBody(NULL, CodeShort), PhoneBody(NULL, CodeAlpha),
     EmailBody(EmailA, NULL),
     [type |-> "", email |-> EmailA, phone |-> NULL, otp |-> CodeShort]}

VerifyBodies == GoodBodies \cup BadBodies

NodeEnvs == {"development", "production", "test"}
Configs == [NODE_ENV : NodeEnvs, sendGridApiKey : BOOLEAN, twilio : BOOLEAN]

Development == [NODE_ENV |-> "development", sendGridApiKey |-> TRUE, twilio |-> TRUE]
Production == [NODE_ENV |-> "production", sendGridApiKey |-> TRUE, twilio |-> TRUE]
Bare == [NODE_ENV |-> "test", sendGridApiKey |-> FALSE, twilio |-> FALSE]
ProductionNoKey == [NODE_ENV |-> "production", sendGridApiKey |-> FALSE, twilio |-> TRUE]

Slots == {1, 2}
StoreOk == {"ok"}
StoreAny == {"ok", "error"}

-----------------------------------------------------------------------------
(* Requests, responses, rows *)

\* res.status(status).json({success, error?, message?, details?, otp?, verified?})
Response(status, error, otp, verified) ==
    [status |-> status, success |-> (status = 200), error |-> error,
     message |-> "", details |-> "", otp |-> otp, verified |-> verified]

NoResponse == Response(0, "", NULL, FALSE)
Ok(message, otp) == [Response(200, "", otp, FALSE) EXCEPT !.message = message]
Verified(type) ==
    [Response(200, "", NULL, TRUE) EXCEPT
        !.message = IF type = "email" THEN "Email verified successfully"
                                      ELSE "Phone verified successfully"]
Failure(status, error) == Response(status, error, NULL, FALSE)

\* the text of the error thrown by twilioClient.messages.create
SmsErrorMessage == "smsError.message"

\* the table and the counts per row when a request arrived
Snapshot == [store |-> store, okCount |-> okCount, failCount |-> failCount]
NoTable == [store |-> << >>, okCount |-> << >>, failCount |-> << >>]

Idle ==
    [pc |-> "idle", op |-> "", email |-> NULL, phone |-> NULL, otp |-> NULL,
     type |-> "", code |-> NULL, expiresAt |-> 0, at |-> 0,
     formattedPhone |-> NULL, rec |-> 0, currentAttempts |-> 0, trace |-> << >>,
     pre |-> NoTable, resp |-> NoResponse]

\* EchoOtp without the test of NODE_ENV
EchoOtpAlways(r) == r.code

\* ...(process.env.NODE_ENV === 'development' && { otp })
EchoOtp(r) == IF config.NODE_ENV = "development" THEN r.code ELSE NULL

\* res.status(...).json(...): the request r of slot s is answered with resp
Complete(s, r, resp) ==
    req' = [req EXCEPT ![s] = [r EXCEPT !.pc = "done", !.resp = resp]]

Row(type, email, phone, code, expiresAt) ==
    [type |-> type, email |-> email, phone |-> phone, otp_code |-> code,
     expires_at |-> expiresAt, verified |-> FALSE, attempts |-> 0]

Ids == 1..Len(store)

Max(S) == CHOOSE x \in S : \A y \in S : y <= x

\* requests in flight that may still insert a row
Inserting == {s \in Slots : req[s].pc \in {"email-invalidate", "email-insert",
                                            "phone-invalidate", "phone-insert"}}

\* the operation op of the store or of a channel, awaited by r, ended with out
Did(r, op, out) == [r EXCEPT !.trace = Append(@, <<op, out>>)]

-----------------------------------------------------------------------------
(* POST /api/send-email-otp *)

\* the handler up to its first await: validation, generateOTP, expiresAt
SendEmailOtp(s, email) ==
    LET r == [Idle EXCEPT !.op = "send-email-otp", !.type = "email",
                          !.email = email, !.at = now, !.pre = Snapshot]
    IN  /\ req[s].pc = "idle"
        /\ IF email = NULL
           THEN Complete(s, r, Failure(400, "Email is required"))
           ELSE IF ~emailRegexTest(email)
           THEN Complete(s, r, Failure(400, "Invalid email format"))
           ELSE /\ \E k \in RandSamples :
                     req' = [req EXCEPT ![s] =
                               [r EXCEPT !.pc = "email-invalidate",
                                         !.code = generateOTP(k),
                                         !.expiresAt = now + OTP_EXPIRY_MINUTES]]
        /\ UNCHANGED <<config, now, store, issued, okCount, failCount>>

\* InvalidateEmail with .eq('type', 'phone') in the place of .eq('type', 'email')
InvalidateEmailOfPhone(rows, email) ==
    [i \in 1..Len(rows) |->
        IF rows[i].email = email /\ rows[i].type = "phone" /\ ~rows[i].verified
        THEN [rows[i] EXCEPT !.verified = TRUE]
        ELSE rows[i]]

\* InvalidateEmail without .eq('email', email)
InvalidateEmailAnyAddress(rows, email) ==
    [i \in 1..Len(rows) |->
        IF rows[i].type = "email" /\ ~rows[i].verified
        THEN [rows[i] EXCEPT !.verified = TRUE]
        ELSE rows[i]]

\* update({verified: true}).eq('email', email).eq('type', 'email').eq('verified', false)
InvalidateEmail(rows, email) ==
    [i \in 1..Len(rows) |->
        IF rows[i].email = email /\ rows[i].type = "email" /\ ~rows[i].verified
        THEN [rows[i] EXCEPT !.verified = TRUE]
        ELSE rows[i]]

\* SendEmailInvalidate where the update takes effect although it returns an error
SendEmailInvalidateAnyway(s, outs) ==
    /\ req[s].pc = "email-invalidate"
    /\ \E out \in outs :
         /\ store' = InvalidateEmail(store, req[s].email)
         /\ req' = [req EXCEPT ![s] =
                      [Did(req[s], "invalidate", out) EXCEPT !.pc = "email-insert"]]
    /\ UNCHANGED <<config, now, issued, okCount, failCount>>

\* the awaited update; its result is not looked at
SendEmailInvalidate(s, outs) ==
    /\ req[s].pc = "email-invalidate"
    /\ \E out \in outs :
         /\ store' = IF out = "ok" THEN InvalidateEmail(store, req[s].email) ELSE store
         /\ req' = [req EXCEPT ![s] =
                      [Did(req[s], "invalidate", out) EXCEPT !.pc = "email-insert"]]
    /\ UNCHANGED <<config, now, issued, okCount, failCount>>

\* SendEmailInsert without the check of dbError
SendEmailInsertUnchecked(s, outs) ==
    /\ req[s].pc = "email-insert"
    /\ \E out \in outs :
         LET r == Did(req[s], "insert", out)
         IN  IF out = "ok"
             THEN /\ store' = Append(store,
                          Row("email", r.email, NULL, r.code, r.expiresAt))
                  /\ issued' = Append(issued, "pending")
                  /\ okCount' = Append(okCount, 0)
                  /\ failCount' = Append(failCount, 0)
                  /\ req' = [req EXCEPT ![s] =
                               [r EXCEPT !.pc = "email-dispatch",
                                         !.rec = Len(store) + 1]]
             ELSE /\ req' = [req EXCEPT ![s] = [r EXCEPT !.pc = "email-dispatch"]]
                  /\ UNCHANGED <<store, issued, okCount, failCount>>
    /\ UNCHANGED <<config, now>>

\* the awaited insert and the check of dbError
SendEmailInsert(s, outs) ==
    /\ req[s].pc = "email-insert"
    /\ \E out \in outs :
         LET r == Did(req[s], "insert", out)
         IN  IF out = "ok"
             THEN /\ store' = Append(store,
                          Row("email", r.email, NULL, r.code, r.expiresAt))
                  /\ issued' = Append(issued, "pending")
                  /\ okCount' = Append(okCount, 0)
                  /\ failCount' = Append(failCount, 0)
                  /\ req' = [req EXCEPT ![s] =
                               [r EXCEPT !.pc = "email-dispatch",
                                         !.rec = Len(store) + 1]]
             ELSE /\ Complete(s, r, Failure(500, "Failed to generate verification code"))
                  /\ UNCHANGED <<store, issued, okCount, failCount>>
    /\ UNCHANGED <<config, now>>

\* the answer to an issue request that had inserted row r.rec
Answer(s, r, resp) ==
    /\ Complete(s, r, resp)
    /\ issued' = [issued EXCEPT ![r.rec] = IF resp.success THEN "ok" ELSE "failed"]

\* SendEmailDispatch where a missing SendGrid key is an error in every mode
SendEmailDispatchNeedsKey(s) ==
    /\ req[s].pc = "email-dispatch"
    /\ IF config.sendGridApiKey
       THEN \E out \in {"ok", "error"} :
              LET r == Did(req[s], "send", out)
              IN  IF out = "error" /\ config.NODE_ENV = "production"
                  THEN Answer(s, r, Failure(500,
                         "Failed to send verification email. Please try again later."))
                  ELSE Answer(s, r, Ok("Verification code sent to your email", EchoOtp(r)))
       ELSE Answer(s, req[s], Failure(500, "Email service not configured"))
    /\ UNCHANGED <<config, now, store, okCount, failCount>>

\* the SendGrid call and the response
SendEmailDispatch(s) ==
    /\ req[s].pc = "email-dispatch"
    /\ IF config.sendGridApiKey
       THEN \E out \in {"ok", "error"} :
              LET r == Did(req[s], "send", out)
              IN  IF out = "error" /\ config.NODE_ENV = "production"
                  THEN Answer(s, r, Failure(500,
                         "Failed to send verification email. Please try again later."))
                  ELSE Answer(s, r, Ok("Verification code sent to your email", EchoOtp(r)))
       ELSE IF config.NODE_ENV = "production"
            THEN Answer(s, req[s], Failure(500, "Email service not configured"))
            ELSE Answer(s, req[s],
                        Ok("Verification code sent to your email", EchoOtp(req[s])))
    /\ UNCHANGED <<config, now, store, okCount, failCount>>

-----------------------------------------------------------------------------
(* POST /api/send-phone-otp *)

\* the handler up to its first await: the checks, formatPhoneNumber, generateOTP
SendPhoneOtp(s, phone) ==
    LET r == [Idle EXCEPT !.op = "send-phone-otp", !.type = "phone",
                          !.phone = phone, !.at = now, !.pre = Snapshot]
    IN  /\ req[s].pc = "idle"
        /\ IF phone = NULL
           THEN Complete(s, r, Failure(400, "Phone number is required"))
           ELSE IF ~config.twilio
           THEN Complete(s, r, Failure(500,
                  "SMS service not configured. Please contact support."))
           ELSE /\ \E k \in RandSamples :
                     req' = [req EXCEPT ![s] =
                               [r EXCEPT !.pc = "phone-invalidate",
                                         !.formattedPhone = formatPhoneNumber(phone),
                                         !.code = generateOTP(k),
                                         !.expiresAt = now + OTP_EXPIRY_MINUTES]]
        /\ UNCHANGED <<config, now, store, issued, okCount, failCount>>

\* InvalidatePhone with .eq('verified', true) in the place of .eq('verified', false)
InvalidatePhoneVerified(rows, phone) ==
    [i \in 1..Len(rows) |->
        IF rows[i].phone = phone /\ rows[i].type = "phone" /\ rows[i].verified
        THEN [rows[i] EXCEPT !.verified = TRUE]
        ELSE rows[i]]

\* update({verified: true}).eq('phone', formattedPhone).eq('type', 'phone').eq('verified', false)
InvalidatePhone(rows, phone) ==
    [i \in 1..Len(rows) |->
        IF rows[i].phone = phone /\ rows[i].type = "phone" /\ ~rows[i].verified
        THEN [rows[i] EXCEPT !.verified = TRUE]
        ELSE rows[i]]

\* the awaited update; its result is not looked at
SendPhoneInvalidate(s, outs) ==
    /\ req[s].pc = "phone-invalidate"
    /\ \E out \in outs :
         /\ store' = IF out = "ok"
                     THEN InvalidatePhone(store, req[s].formattedPhone) ELSE store
         /\ req' = [req EXCEPT ![s] =
                      [Did(req[s], "invalidate", out) EXCEPT !.pc = "phone-insert"]]
    /\ UNCHANGED <<config, now, issued, okCount, failCount>>

\* the awaited insert and the check of dbError
SendPhoneInsert(s, outs) ==
    /\ req[s].pc = "phone-insert"
    /\ \E out \in outs :
         LET r == Did(req[s], "insert", out)
         IN  IF out = "ok"
             THEN /\ store' = Append(store,
                          Row("phone", NULL, r.formattedPhone, r.code, r.expiresAt))
                  /\ issued' = Append(issued, "pending")
                  /\ okCount' = Append(okCount, 0)
                  /\ failCount' = Append(failCount, 0)
                  /\ req' = [req EXCEPT ![s] =
                               [r EXCEPT !.pc = "phone-dispatch",
                                         !.rec = Len(store) + 1]]
             ELSE /\ Complete(s, r, Failure(500, "Failed to generate verification code"))
                  /\ UNCHANGED <<store, issued, okCount, failCount>>
    /\ UNCHANGED <<config, now>>

\* SendPhoneDispatch with the fallback of the email handler outside production
SendPhoneDispatchPermissive(s) ==
    /\ req[s].pc = "phone-dispatch"
    /\ \E out \in {"ok", "error"} :
         LET r == Did(req[s], "send", out)
         IN  IF out = "ok" \/ config.NODE_ENV # "production"
             THEN Answer(s, r, Ok("Verification code sent to your phone", EchoOtp(r)))
             ELSE Answer(s, r, [Failure(500,
                    "Failed to send SMS. Please check your phone number and try again.")
                    EXCEPT !.details = SmsErrorMessage])
    /\ UNCHANGED <<config, now, store, okCount, failCount>>

\* SendPhoneDispatch that invalidates the row it inserted when the send fails
SendPhoneDispatchRollback(s) ==
    /\ req[s].pc = "phone-dispatch"
    /\ \E out \in {"ok", "error"} :
         LET r == Did(req[s], "send", out)
         IN  IF out = "ok"
             THEN /\ Answer(s, r, Ok("Verification code sent to your phone", EchoOtp(r)))
                  /\ UNCHANGED store
             ELSE /\ Answer(s, r, [Failure(500,
                      "Failed to send SMS. Please check your phone number and try again.")
                      EXCEPT !.details = SmsErrorMessage])
                  /\ store' = [store EXCEPT ![r.rec].verified = TRUE]
    /\ UNCHANGED <<config, now, okCount, failCount>>

\* twilioClient.messages.create and the response
SendPhoneDispatch(s) ==
    /\ req[s].pc = "phone-dispatch"
    /\ \E out \in {"ok", "error"} :
         LET r == Did(req[s], "send", out)
         IN  IF out = "ok"
             THEN Answer(s, r, Ok("Verification code sent to your phone", EchoOtp(r)))
             ELSE Answer(s, r, [Failure(500,
                    "Failed to send SMS. Please check your phone number and try again.")
                    EXCEPT !.details = SmsErrorMessage])
    /\ UNCHANGED <<config, now, store, okCount, failCount>>

-----------------------------------------------------------------------------
(* POST /api/verify-otp *)

\* BadOtpFormat with && in the place of ||
BadOtpFormatBoth(otp) == Len(otp) # OTP_LENGTH /\ ~AllDigits(otp)

\* otp.length !== OTP_LENGTH || !/^\d+$/.test(otp)
BadOtpFormat(otp) == Len(otp) # OTP_LENGTH \/ ~AllDigits(otp)

\* the handler up to its first await: the checks of the body, formattedPhone,
\* and the timestamp put in the query
VerifyOtp(s, body) ==
    LET r == [Idle EXCEPT !.op = "verify-otp", !.type = body.type,
                          !.email = body.email, !.phone = body.phone,
                          !.otp = body.otp, !.at = now, !.pre = Snapshot]
    IN  /\ req[s].pc = "idle"
        /\ IF body.otp = NULL \/ body.type = ""
           THEN Complete(s, r, Failure(400, "OTP and type are required"))
           ELSE IF body.type = "email" /\ body.email = NULL
           THEN Complete(s, r, Failure(400, "Email is required for email verification"))
           ELSE IF body.type = "phone" /\ body.phone = NULL
           THEN Complete(s, r, Failure(400, "Phone is required for phone verification"))
           ELSE IF BadOtpFormat(body.otp)
           THEN Complete(s, r, Failure(400, "Invalid verification code format"))
           ELSE /\ req' = [req EXCEPT ![s] =
                             [r EXCEPT !.pc = "verify-query",
                                       !.formattedPhone =
                                          IF body.phone # NULL
                                          THEN formatPhoneNumber(body.phone)
                                          ELSE NULL]]
        /\ UNCHANGED <<config, now, store, issued, okCount, failCount>>

\* if (type === 'email') .eq('email', email) else .eq('phone', formattedPhone)
SameDestination(row, r) ==
    IF r.type = "email" THEN row.email = r.email ELSE row.phone = r.formattedPhone

\* Matching with .lt('expires_at', now) in the place of .gt
MatchingExpired(rows, r) ==
    {i \in 1..Len(rows) :
        /\ rows[i].type = r.type
        /\ rows[i].otp_code = r.otp
        /\ ~rows[i].verified
        /\ rows[i].expires_at < r.at
        /\ SameDestination(rows[i], r)}

\* Matching where only the newest row of the destination can match
MatchingNewestOnly(rows, r) ==
    {i \in 1..Len(rows) :
        /\ rows[i].type = r.type
        /\ rows[i].otp_code = r.otp
        /\ ~rows[i].verified
        /\ rows[i].expires_at > r.at
        /\ SameDestination(rows[i], r)
        /\ \A j \in 1..Len(rows) :
              rows[j].type = r.type /\ SameDestination(rows[j], r) => j <= i}

\* Matching with .gte('expires_at', now) in the place of .gt
MatchingAtExpiry(rows, r) ==
    {i \in 1..Len(rows) :
        /\ rows[i].type = r.type
        /\ rows[i].otp_code = r.otp
        /\ ~rows[i].verified
        /\ rows[i].expires_at >= r.at
        /\ SameDestination(rows[i], r)}

\* the filter of the first query: type, otp_code, verified = false, expires_at > now
Matching(rows, r) ==
    {i \in 1..Len(rows) :
        /\ rows[i].type = r.type
        /\ rows[i].otp_code = r.otp
        /\ ~rows[i].verified
        /\ rows[i].expires_at > r.at
        /\ SameDestination(rows[i], r)}

\* the filter of the second query: type, verified = false
Unverified(rows, r) ==
    {i \in 1..Len(rows) :
        /\ rows[i].type = r.type
        /\ ~rows[i].verified
        /\ SameDestination(rows[i], r)}

\* .order('created_at', {ascending: false}).limit(1)
MostRecent(S) == Max(S)

\* MaxAttemptsExceeded with > in the place of >=
MaxAttemptsExceededStrict(row) == row.attempts > MAX_OTP_ATTEMPTS

\* otpRecord.attempts >= MAX_OTP_ATTEMPTS
MaxAttemptsExceeded(row) == row.attempts >= MAX_OTP_ATTEMPTS

\* the first query, the check of queryError and of the attempts of the row found
VerifyQuery(s, outs) ==
    /\ req[s].pc = "verify-query"
    /\ \E out \in outs :
         LET r == Did(req[s], "query", out)
             found == Matching(store, r)
         IN  IF out = "error"
             THEN Complete(s, r, Failure(500, "Failed to verify code"))
             ELSE IF found = {}
             THEN /\ req' = [req EXCEPT ![s] =
                               [r EXCEPT !.pc = "verify-attempt-query"]]
             ELSE IF MaxAttemptsExceeded(store[MostRecent(found)])
             THEN Complete(s, [r EXCEPT !.rec = MostRecent(found)], Failure(400,
                    "Maximum verification attempts exceeded. Please request a new code."))
             ELSE /\ req' = [req EXCEPT ![s] =
                               [r EXCEPT !.pc = "verify-mark",
                                         !.rec = MostRecent(found)]]
    /\ UNCHANGED <<config, now, store, issued, okCount, failCount>>

\* NextAttempts as recentOtp[0].attempts || (0 + 1)
NextAttemptsOrOne(row) == IF row.attempts # 0 THEN row.attempts ELSE 1

\* (recentOtp[0].attempts || 0) + 1
NextAttempts(row) == row.attempts + 1

\* VerifyAttemptQuery with an answer of its own when there is no unverified row
VerifyAttemptQueryTelling(s, outs) ==
    /\ req[s].pc = "verify-attempt-query"
    /\ \E out \in outs :
         LET r == Did(req[s], "attempt-query", out)
             recent == Unverified(store, r)
         IN  IF out = "error" \/ recent = {}
             THEN Complete(s, r, Failure(400, "No verification code to verify"))
             ELSE /\ req' = [req EXCEPT ![s] =
                               [r EXCEPT !.pc = "verify-update-attempts",
                                         !.rec = MostRecent(recent),
                                         !.currentAttempts =
                                            NextAttempts(store[MostRecent(recent)])]]
    /\ UNCHANGED <<config, now, store, issued, okCount, failCount>>

\* no row matched: the query for the most recent unverified row
VerifyAttemptQuery(s, outs) ==
    /\ req[s].pc = "verify-attempt-query"
    /\ \E out \in outs :
         LET r == Did(req[s], "attempt-query", out)
             recent == Unverified(store, r)
         IN  IF out = "error" \/ recent = {}
             THEN Complete(s, r, Failure(400, "Invalid or expired verification code"))
             ELSE /\ req' = [req EXCEPT ![s] =
                               [r EXCEPT !.pc = "verify-update-attempts",
                                         !.rec = MostRecent(recent),
                                         !.currentAttempts =
                                            NextAttempts(store[MostRecent(recent)])]]
    /\ UNCHANGED <<config, now, store, issued, okCount, failCount>>

\* SetAttempts as update({attempts: currentAttempts, verified: false})
SetAttemptsUnverify(rows, id, currentAttempts) ==
    [rows EXCEPT ![id].attempts = currentAttempts, ![id].verified = FALSE]

\* update({attempts: currentAttempts}).eq('id', id)
SetAttempts(rows, id, currentAttempts) ==
    [rows EXCEPT ![id].attempts = currentAttempts]

\* update({verified: true}).eq('id', id)
SetVerified(rows, id) == [rows EXCEPT ![id].verified = TRUE]

\* VerifyUpdateAttempts where an error of the update is reported to the caller
VerifyUpdateAttemptsChecked(s, outs) ==
    /\ req[s].pc = "verify-update-attempts"
    /\ \E out \in outs :
         LET r == Did(req[s], "update-attempts", out)
         IN  IF out = "ok"
             THEN /\ store' = SetAttempts(store, r.rec, r.currentAttempts)
                  /\ failCount' = [failCount EXCEPT ![r.rec] = @ + 1]
                  /\ Complete(s, r, Failure(400, "Invalid or expired verification code"))
             ELSE /\ UNCHANGED <<store, failCount>>
                  /\ Complete(s, r, Failure(500, "Failed to verify code"))
    /\ UNCHANGED <<config, now, issued, okCount>>

\* the awaited update of the attempts, result not looked at, and the response
VerifyUpdateAttempts(s, outs) ==
    /\ req[s].pc = "verify-update-attempts"
    /\ \E out \in outs :
         LET r == Did(req[s], "update-attempts", out)
         IN  /\ IF out = "ok"
                THEN /\ store' = SetAttempts(store, r.rec, r.currentAttempts)
                     /\ failCount' = [failCount EXCEPT ![r.rec] = @ + 1]
                ELSE UNCHANGED <<store, failCount>>
             /\ Complete(s, r, Failure(400, "Invalid or expired verification code"))
    /\ UNCHANGED <<config, now, issued, okCount>>

\* the awaited update that marks the row verified, and the response
VerifyMark(s, outs) ==
    /\ req[s].pc = "verify-mark"
    /\ \E out \in outs :
         LET r == Did(req[s], "mark", out)
         IN  IF out = "ok"
             THEN /\ store' = SetVerified(store, r.rec)
                  /\ okCount' = [okCount EXCEPT ![r.rec] = @ + 1]
                  /\ Complete(s, r, Verified(r.type))
             ELSE /\ Complete(s, r, Failure(500, "Failed to verify code"))
                  /\ UNCHANGED <<store, okCount>>
    /\ UNCHANGED <<config, now, issued, failCount>>

-----------------------------------------------------------------------------
(* The clock, the traffic and the specifications *)

\* the handler has answered and returns; the slot takes the next request
Return(s) ==
    /\ req[s].pc = "done"
    /\ req' = [req EXCEPT ![s] = Idle]
    /\ UNCHANGED <<config, now, store, issued, okCount, failCount>>

\* a clock tick is half the validity window of a code
TickMinutes == OTP_EXPIRY_MINUTES \div 2

Tick(maxTicks) ==
    /\ now < maxTicks * TickMinutes
    /\ now' = now + TickMinutes
    /\ UNCHANGED <<config, store, req, issued, okCount, failCount>>

InitWith(configs) ==
    /\ config \in configs
    /\ now = 0
    /\ store = << >>
    /\ req = [s \in Slots |-> Idle]
    /\ issued = << >>
    /\ okCount = << >>
    /\ failCount = << >>

\* room for one more row
IssueRoom(maxRecords) == Len(store) + Cardinality(Inserting) < maxRecords

\* no row has maxFailed counted failures yet
VerifyRoom(maxFailed) == \A i \in Ids : failCount[i] < maxFailed

\* requests to /api/send-email-otp on the slots given, with the store outcomes given
EmailTraffic(slots, outs, emails, maxRecords) ==
    \/ \E s \in slots, email \in emails :
         IssueRoom(maxRecords) /\ SendEmailOtp(s, email)
    \/ \E s \in slots : SendEmailInvalidate(s, outs)
    \/ \E s \in slots : SendEmailInsert(s, outs)
    \/ \E s \in slots : SendEmailDispatch(s)

\* requests to /api/send-phone-otp
PhoneTraffic(slots, outs, phones, maxRecords) ==
    \/ \E s \in slots, phone \in phones :
         IssueRoom(maxRecords) /\ SendPhoneOtp(s, phone)
    \/ \E s \in slots : SendPhoneInvalidate(s, outs)
    \/ \E s \in slots : SendPhoneInsert(s, outs)
    \/ \E s \in slots : SendPhoneDispatch(s)

\* requests to /api/verify-otp
VerifyTraffic(slots, outs, bodies, maxFailed) ==
    \/ \E s \in slots, body \in bodies : VerifyRoom(maxFailed) /\ VerifyOtp(s, body)
    \/ \E s \in slots : VerifyQuery(s, outs)
    \/ \E s \in slots : VerifyAttemptQuery(s, outs)
    \/ \E s \in slots : VerifyUpdateAttempts(s, outs)
    \/ \E s \in slots : VerifyMark(s, outs)

Housekeeping(slots, maxTicks) ==
    \/ \E s \in slots : Return(s)
    \/ Tick(maxTicks)

\* the whole system: any configuration, requests interleave at their awaits,
\* store operations may fail
Init == InitWith(Configs)
Next ==
    \/ EmailTraffic(Slots, StoreAny, EmailInputs, MaxRecords)
    \/ PhoneTraffic(Slots, StoreAny, PhoneInputs, MaxRecords)
    \/ VerifyTraffic(Slots, StoreAny, VerifyBodies, MaxFailed)
    \/ Housekeeping(Slots, MaxTicks)
Spec == Init /\ [][Next]_vars

\* requests one at a time, every store operation succeeds
NextSeq ==
    \/ EmailTraffic({1}, StoreOk, EmailInputs, MaxRecords)
    \/ PhoneTraffic({1}, StoreOk, PhoneInputs, MaxRecords)
    \/ VerifyTraffic({1}, StoreOk, VerifyBodies, MaxFailed)
    \/ Housekeeping({1}, MaxTicks)
SpecSeq == InitWith({Development, Production, Bare}) /\ [][NextSeq]_vars

\* requests one at a time for one email address, every store operation succeeds,
\* enough failed verifications to run out the attempts of a row
NextLockout ==
    \/ EmailTraffic({1}, StoreOk, {EmailA}, MaxRecordsLockout)
    \/ VerifyTraffic({1}, StoreOk, {EmailBody(EmailA, o) : o \in GeneratedCodes},
                     MaxFailedLockout)
    \/ Housekeeping({1}, MaxTicks)
SpecLockout == InitWith({Development}) /\ [][NextLockout]_vars

\* requests for one email address interleave at their awaits while the clock
\* stands still, every store operation succeeds
NextConc ==
    \/ EmailTraffic(Slots, StoreOk, {EmailA}, MaxRecords)
    \/ VerifyTraffic(Slots, StoreOk, {EmailBody(EmailA, o) : o \in GeneratedCodes},
                     MaxFailed)
    \/ \E s \in Slots : Return(s)
SpecConc == InitWith({Development}) /\ [][NextConc]_vars

\* verify requests for one email address interleave at their awaits, every
\* store operation succeeds, enough failed verifications to run out the
\* attempts of a row
NextLockoutConc ==
    \/ EmailTraffic({1}, StoreOk, {EmailA}, MaxRecordsLockout)
    \/ VerifyTraffic(Slots, StoreOk, {EmailBody(EmailA, o) : o \in GeneratedCodes},
                     MaxFailedLockout)
    \/ \E s \in Slots : Return(s)
SpecLockoutConc == InitWith({Development}) /\ [][NextLockoutConc]_vars

\* requests one at a time for two destinations of each kind while the clock
\* stands still, every store operation succeeds
NextFrame ==
    \/ EmailTraffic({1}, StoreOk, {EmailA, EmailB}, MaxRecordsFrame)
    \/ PhoneTraffic({1}, StoreOk, {PhoneUS, PhoneUK}, MaxRecordsFrame)
    \/ VerifyTraffic({1}, StoreOk, FrameBodies, MaxFailed)
    \/ \E s \in {1} : Return(s)
SpecFrame == InitWith({Development}) /\ [][NextFrame]_vars

\* requests one at a time, every store operation succeeds, a send may fail,
\* in production with and without the SendGrid key and in development
NextFailedIssue ==
    \/ EmailTraffic({1}, StoreOk, {EmailA}, MaxRecords)
    \/ PhoneTraffic({1}, StoreOk, {PhoneUS}, MaxRecords)
    \/ VerifyTraffic({1}, StoreOk, GoodBodies, MaxFailed)
    \/ Housekeeping({1}, MaxTicks)
SpecFailedIssue ==
    InitWith({Development, Production, ProductionNoKey}) /\ [][NextFailedIssue]_vars

\* requests one at a time, a store operation may fail
NextFault ==
    \/ EmailTraffic({1}, StoreAny, {EmailA}, MaxRecords)
    \/ PhoneTraffic({1}, StoreAny, {PhoneUS}, MaxRecords)
    \/ VerifyTraffic({1}, StoreAny, GoodBodies, MaxFailed)
    \/ Housekeeping({1}, MaxTicks)
SpecFault == InitWith({Development, Production}) /\ [][NextFault]_vars

\* issue requests alone, in every configuration, two in flight, a store
\* operation may fail
NextIssue ==
    \/ EmailTraffic(Slots, StoreAny, {EmailA}, MaxRecords)
    \/ PhoneTraffic(Slots, StoreAny, {PhoneUS}, MaxRecords)
    \/ \E s \in Slots : Return(s)
SpecIssue == InitWith(Configs) /\ [][NextIssue]_vars

\* formatPhoneNumber on every short phone string and on the two samples, by
\* phone issue requests one at a time
NextNormalize ==
    \/ PhoneTraffic({1}, StoreOk, PhoneStrings \cup {PhoneUS, PhoneUK}, MaxRecordsLockout)
    \/ \E s \in {1} : Return(s)
SpecNormalize == InitWith({Development}) /\ [][NextNormalize]_vars

-----------------------------------------------------------------------------
(* Reading the state: answers, destinations, rows *)

IsVerified(resp) == resp.status = 200 /\ resp.success /\ resp.verified

IsInvalidOrExpired(resp) ==
    resp.status = 400 /\ resp.error = "Invalid or expired verification code"

IsMaxAttemptsExceeded(resp) ==
    /\ resp.status = 400
    /\ resp.error = "Maximum verification attempts exceeded. Please request a new code."

IsValidationError(resp) ==
    /\ resp.status = 400
    /\ resp.error \in {"Email is required", "Invalid email format",
                       "Phone number is required", "OTP and type are required",
                       "Email is required for email verification",
                       "Phone is required for phone verification",
                       "Invalid verification code format"}

IsConfigurationError(resp) ==
    /\ resp.status = 500
    /\ resp.error = "SMS service not configured. Please contact support."

\* the destination a row is bound to, and the rows of one (kind, destination)
RowDest(row) == IF row.type = "email" THEN row.email ELSE row.phone
RowsOf(rows, kind, dest) ==
    {i \in 1..Len(rows) : rows[i].type = kind /\ RowDest(rows[i]) = dest}

\* the destination of a verify request that passed the checks of its body
ReqDest(q) == IF q.type = "email" THEN q.email ELSE q.formattedPhone

\* the rows of the (kind, destination) of q when q arrived
Own(q) == RowsOf(q.pre.store, q.type, ReqDest(q))

\* a verify request that has been answered after it reached the store
VerifyDone(q) == q.pc = "done" /\ q.op = "verify-otp" /\ q.trace # << >>

\* row i was live when the verify request q arrived: unverified and not expired
Live(q, i) == ~q.pre.store[i].verified /\ q.pre.store[i].expires_at > q.at

\* nothing has touched row i between its insertion and the arrival of q
Untouched(q, i) == ~q.pre.store[i].verified /\ q.pre.store[i].attempts = 0

-----------------------------------------------------------------------------
(* C1: issue(EMAIL, e) answered with success outside production, followed   *)
(* at once by verify(EMAIL, e, c) with the code c of that issuance while    *)
(* the clock is inside the validity window, answers verified:true and       *)
(* leaves the row of the issuance with verified = true.                     *)

\* the verify request q follows at once the issuance that inserted row i
C1_Case(q, i) ==
    /\ VerifyDone(q)
    /\ q.type = "email"
    /\ config.NODE_ENV # "production"
    /\ Own(q) # {}
    /\ i = Max(Own(q))
    /\ issued[i] = "ok"
    /\ Untouched(q, i)
    /\ q.otp = q.pre.store[i].otp_code
    /\ q.at < q.pre.store[i].expires_at

C1_IssueThenVerify ==
    \A s \in Slots : \A i \in Ids :
        C1_Case(req[s], i) => IsVerified(req[s].resp) /\ store[i].verified

C1_Witness ==
    \E s \in Slots : \E i \in Ids :
        C1_Case(req[s], i) /\ IsVerified(req[s].resp) /\ store[i].verified

-----------------------------------------------------------------------------
(* C2: after two successive issue requests for one (kind, destination),     *)
(* both answered with success, a verify with the code of the first          *)
(* issuance answers InvalidOrExpired and a following verify with the code   *)
(* of the second issuance answers verified:true.                            *)

\* r1 and r2 are the rows of the two latest issuances of the (kind,
\* destination) of q, both answered with success, and no verify request
\* reached r1 before the second issuance
C2_Pair(q, r1, r2) ==
    /\ VerifyDone(q)
    /\ {r1, r2} \subseteq Own(q)
    /\ r1 < r2
    /\ r2 = Max(Own(q))
    /\ r1 = Max(Own(q) \ {r2})
    /\ issued[r1] = "ok"
    /\ issued[r2] = "ok"
    /\ q.pre.store[r1].attempts = 0
    /\ q.pre.okCount[r1] = 0

\* q is the first verify after the second issuance, with the first code
C2_FirstCode(q, r1, r2) ==
    /\ C2_Pair(q, r1, r2)
    /\ Untouched(q, r2)
    /\ q.otp = q.pre.store[r1].otp_code

\* q follows one failed verify, with the second code
C2_SecondCode(q, r1, r2) ==
    /\ C2_Pair(q, r1, r2)
    /\ ~q.pre.store[r2].verified
    /\ q.pre.store[r2].attempts = 1
    /\ q.pre.failCount[r2] = 1
    /\ q.pre.okCount[r2] = 0
    /\ q.otp = q.pre.store[r2].otp_code

\* C2 as stated: whatever the two codes and the time of the second verify
C2_AsStated ==
    \A s \in Slots : \A r1, r2 \in Ids :
        /\ C2_FirstCode(req[s], r1, r2) => IsInvalidOrExpired(req[s].resp)
        /\ C2_SecondCode(req[s], r1, r2) => IsVerified(req[s].resp)

\* C2 amended: the first code is refused when the two codes differ, and the
\* second code is accepted when its verify comes before expires_at of the
\* second row
C2_ReissueInvalidates ==
    \A s \in Slots : \A r1, r2 \in Ids :
        LET q == req[s]
        IN  /\ C2_FirstCode(q, r1, r2)
               /\ q.pre.store[r1].otp_code # q.pre.store[r2].otp_code
               => /\ IsInvalidOrExpired(q.resp)
                  /\ store[r1].verified
                  /\ ~store[r2].verified
            /\ C2_SecondCode(q, r1, r2) /\ q.at < q.pre.store[r2].expires_at
               => IsVerified(q.resp) /\ store[r2].verified

\* the second code has been accepted after the first one was refused
C2_Witness ==
    \E s \in Slots : \E r1, r2 \in Ids :
        /\ C2_SecondCode(req[s], r1, r2)
        /\ store[r1].otp_code # store[r2].otp_code
        /\ IsVerified(req[s].resp)

-----------------------------------------------------------------------------
(* C3: when requests run one at a time and every store operation succeeds,  *)
(* each (kind, destination) has at most one row with verified = false, in   *)
(* every state.                                                             *)

SameKindAndDestination(a, b) == a.type = b.type /\ RowDest(a) = RowDest(b)

C3_AtMostOneUnverified ==
    \A i, j \in Ids :
        i # j /\ SameKindAndDestination(store[i], store[j])
        => store[i].verified \/ store[j].verified

\* a second issuance has put its row next to the row of the first, which it
\* had invalidated
C3_Witness ==
    \E i, j \in Ids :
        /\ i < j
        /\ SameKindAndDestination(store[i], store[j])
        /\ store[i].verified
        /\ okCount[i] = 0
        /\ ~store[j].verified

-----------------------------------------------------------------------------
(* C4: after 5 failed verify requests have been counted against a row, a    *)
(* further verify for its (kind, destination) with the correct, unexpired   *)
(* code of the row answers MaxAttemptsExceeded and changes nothing in the   *)
(* store: the row keeps verified = false and its attempts.                  *)

\* q submits the code of the live row i, against which 5 or more failed
\* verify requests had been counted when q arrived
C4_Case(q, i) ==
    /\ VerifyDone(q)
    /\ i \in Own(q)
    /\ q.pre.failCount[i] >= 5
    /\ Live(q, i)
    /\ q.otp = q.pre.store[i].otp_code

C4_LockedOut ==
    \A s \in Slots : \A i \in Ids :
        C4_Case(req[s], i)
        => /\ IsMaxAttemptsExceeded(req[s].resp)
           /\ store = req[s].pre.store
           /\ ~store[i].verified
           /\ store[i].attempts = req[s].pre.store[i].attempts

C4_Witness ==
    \E s \in Slots : \E i \in Ids :
        /\ C4_Case(req[s], i)
        /\ req[s].pre.failCount[i] = 5
        /\ IsMaxAttemptsExceeded(req[s].resp)
        /\ store = req[s].pre.store

-----------------------------------------------------------------------------
(* C5: over any interleaving of verify requests, at most one verify request *)
(* answers verified:true for a row, and a verify that submits the code of   *)
(* the row after a successful verification answers InvalidOrExpired.        *)

\* q submits the code of row i, the latest row of its (kind, destination),
\* which a verify request had been answered verified:true for when q arrived
C5_Reuse(q, i) ==
    /\ VerifyDone(q)
    /\ Own(q) # {}
    /\ i = Max(Own(q))
    /\ Len(store) = Len(q.pre.store)
    /\ q.pre.okCount[i] >= 1
    /\ q.otp = q.pre.store[i].otp_code

C5_VerifiedAtMostOnce ==
    /\ \A i \in Ids : okCount[i] <= 1
    /\ \A s \in Slots : \A i \in Ids :
          C5_Reuse(req[s], i) => IsInvalidOrExpired(req[s].resp)

-----------------------------------------------------------------------------
(* C6: expires_at of a row is the instant of its issuance plus 10 minutes,  *)
(* and a verify evaluated at or after expires_at of a row never marks it    *)
(* verified: it answers InvalidOrExpired even with the code of the row,     *)
(* the row unverified and its attempts below 5.                             *)

\* an issue request that has been answered after it inserted its row
IssueDone(q) ==
    q.pc = "done" /\ q.op \in {"send-email-otp", "send-phone-otp"} /\ q.rec # 0

\* q submits the code of row i, unverified with attempts below 5, at or
\* after expires_at of the row
C6_Late(q, i) ==
    /\ VerifyDone(q)
    /\ i \in Own(q)
    /\ ~q.pre.store[i].verified
    /\ q.pre.store[i].attempts < 5
    /\ q.otp = q.pre.store[i].otp_code
    /\ q.at >= q.pre.store[i].expires_at

C6_Expiry ==
    \A s \in Slots :
        /\ IssueDone(req[s]) => store[req[s].rec].expires_at = req[s].at + 10
        /\ \A i \in Ids :
              C6_Late(req[s], i)
              => /\ IsInvalidOrExpired(req[s].resp)
                 /\ ~store[i].verified
                 /\ okCount[i] = 0

\* the code of a row has been refused at the very instant of expires_at
C6_Witness ==
    \E s \in Slots : \E i \in Ids :
        /\ C6_Late(req[s], i)
        /\ req[s].at = store[i].expires_at
        /\ IsInvalidOrExpired(req[s].resp)
        /\ ~store[i].verified

-----------------------------------------------------------------------------
(* C7: a verify with a well-formed code that matches no live row of its     *)
(* (kind, destination) answers InvalidOrExpired and, when the (kind,        *)
(* destination) has an unverified row, raises attempts of the most recent   *)
(* unverified row by exactly 1, changing no other field and no other row.   *)

\* the rows of the (kind, destination) of q that were unverified when q arrived
OwnUnverified(q) == {i \in Own(q) : ~q.pre.store[i].verified}

\* q passed the checks of its body and no live row carries its code
C7_Case(q) ==
    /\ VerifyDone(q)
    /\ \A i \in Own(q) : ~(Live(q, i) /\ q.pre.store[i].otp_code = q.otp)

\* the store q found, with one more attempt on its most recent unverified row
C7_Counted(q) ==
    IF OwnUnverified(q) = {}
    THEN q.pre.store
    ELSE [q.pre.store EXCEPT ![Max(OwnUnverified(q))].attempts = @ + 1]

C7_NoMatchCounts ==
    \A s \in Slots :
        C7_Case(req[s])
        => IsInvalidOrExpired(req[s].resp) /\ store = C7_Counted(req[s])

\* a second failed verify has been counted on a row
C7_Witness ==
    \E s \in Slots : \E i \in Ids :
        /\ C7_Case(req[s])
        /\ OwnUnverified(req[s]) # {}
        /\ i = Max(OwnUnverified(req[s]))
        /\ req[s].pre.store[i].attempts = 1
        /\ store[i].attempts = 2
        /\ IsInvalidOrExpired(req[s].resp)

-----------------------------------------------------------------------------
(* C8: in every execution, interleaved verify requests included, attempts   *)
(* of a row never decreases, and it grows by exactly 1 with each failed     *)
(* verify request counted against the row.                                  *)

C8_Step ==
    \A i \in Ids :
        /\ store'[i].attempts >= store[i].attempts
        /\ failCount'[i] = failCount[i] + 1
           => store'[i].attempts = store[i].attempts + 1

C8_AttemptsCountFailures == [][C8_Step]_vars

-----------------------------------------------------------------------------
(* C9: VERIFIED is terminal. A row that has verified = true, by successful  *)
(* verification or by invalidation on reissue, has verified = true in       *)
(* every later state: no step of an issue or verify request sets verified   *)
(* back to false.                                                           *)

C9_Step == \A i \in Ids : store[i].verified => store'[i].verified

C9_VerifiedIsTerminal == [][C9_Step]_vars

\* a row verified by a verify request has stayed verified through a later
\* issuance and the verification of its row
C9_Witness ==
    \E i, j \in Ids :
        /\ i < j
        /\ okCount[i] >= 1
        /\ store[i].verified
        /\ okCount[j] >= 1
        /\ store[j].verified

-----------------------------------------------------------------------------
(* C10: a request rejected as ValidationError (issue EMAIL with a malformed *)
(* email, verify with a code that is not exactly 6 ASCII digits) or as      *)
(* ConfigurationError (issue PHONE with no SMS channel configured) reads    *)
(* nothing from the store, writes nothing to it and dispatches nothing:     *)
(* the store is the same before and after the request.                      *)

\* exactly 6 ASCII digits
SixDigits(otp) == Len(otp) = 6 /\ \A k \in 1..Len(otp) : otp[k] \in Digit

\* local@domain.tld, with no white space and no second @
WellFormedEmail(e) ==
    \E i, j \in 1..Len(e) :
        /\ 1 < i /\ i + 1 < j /\ j < Len(e)
        /\ e[i] = "@" /\ e[j] = "."
        /\ \A k \in 1..Len(e) : e[k] \notin WhiteSpace /\ (e[k] = "@" => k = i)

MalformedEmailIssue(q) ==
    q.op = "send-email-otp" /\ q.email # NULL /\ ~WellFormedEmail(q.email)

MalformedCodeVerify(q) ==
    q.op = "verify-otp" /\ q.otp # NULL /\ ~SixDigits(q.otp)

NoSmsChannelIssue(q) ==
    q.op = "send-phone-otp" /\ q.phone # NULL /\ ~config.twilio

\* the request did nothing but answer
NoStoreInteraction(q) == q.trace = << >> /\ q.rec = 0 /\ store = q.pre.store

C10_RejectedBeforeStore ==
    \A s \in Slots :
        LET q == req[s]
        IN  q.pc = "done"
            => /\ MalformedEmailIssue(q) \/ MalformedCodeVerify(q)
                  => IsValidationError(q.resp)
               /\ NoSmsChannelIssue(q) => IsConfigurationError(q.resp)
               /\ IsValidationError(q.resp) \/ IsConfigurationError(q.resp)
                  => NoStoreInteraction(q)

\* a code of 3 digits has been rejected while the store held a row
C10_Witness ==
    \E s \in Slots :
        /\ req[s].pc = "done"
        /\ store # << >>
        /\ req[s].type = "phone"
        /\ req[s].phone # NULL
        /\ req[s].otp = CodeShort
        /\ MalformedCodeVerify(req[s])
        /\ IsValidationError(req[s].resp)
        /\ NoStoreInteraction(req[s])

-----------------------------------------------------------------------------
(* C11: in production no answer to an issue request, successful or failed,  *)
(* for EMAIL or PHONE, contains the generated code: two issue requests      *)
(* that differ only in the generated code are answered identically.         *)

\* an issue request that has been answered
IssueAnswered(q) ==
    q.pc = "done" /\ q.op \in {"send-email-otp", "send-phone-otp"}

\* the same request with the same outcome of every awaited call
SameRun(q1, q2) ==
    /\ q1.op = q2.op
    /\ q1.email = q2.email
    /\ q1.phone = q2.phone
    /\ q1.trace = q2.trace

C11_Case(q1, q2) ==
    /\ config.NODE_ENV = "production"
    /\ IssueAnswered(q1)
    /\ IssueAnswered(q2)
    /\ SameRun(q1, q2)

C11_NoCodeInProduction ==
    \A s1, s2 \in Slots :
        C11_Case(req[s1], req[s2])
        => /\ req[s1].resp = req[s2].resp
           /\ req[s1].resp.otp = NULL

\* two requests with different codes have been answered with success alike,
\* or with the failure of the send alike
C11_Witness ==
    \E s1, s2 \in Slots :
        /\ C11_Case(req[s1], req[s2])
        /\ req[s1].code # req[s2].code
        /\ req[s1].code # NULL
        /\ req[s2].code # NULL
        /\ req[s1].rec # 0
        /\ req[s2].rec # 0
        /\ req[s1].resp = req[s2].resp

-----------------------------------------------------------------------------
(* C12: when the email send fails during issue(EMAIL, e), the request fails *)
(* with DispatchError in production, and in every other mode it answers     *)
(* success and the answer carries the generated code.                       *)

\* the last awaited call of q was a send that failed
SendFailed(q) == q.trace # << >> /\ q.trace[Len(q.trace)] = <<"send", "error">>

IsEmailDispatchError(resp) ==
    /\ resp.status = 500
    /\ resp.error = "Failed to send verification email. Please try again later."

C12_EmailSendFailure ==
    \A s \in Slots :
        LET q == req[s]
        IN  q.pc = "done" /\ q.op = "send-email-otp" /\ SendFailed(q)
            => IF config.NODE_ENV = "production"
               THEN IsEmailDispatchError(q.resp)
               ELSE q.resp.success /\ q.resp.otp = q.code

-----------------------------------------------------------------------------
(* C13: when the SMS send fails during issue(PHONE, p), the request fails   *)
(* with DispatchError in every mode: no mode answers a failed SMS send with *)
(* success.                                                                 *)

IsSmsDispatchError(resp) ==
    /\ resp.status = 500
    /\ ~resp.success
    /\ resp.error = "Failed to send SMS. Please check your phone number and try again."

C13_Case(q) == q.pc = "done" /\ q.op = "send-phone-otp" /\ SendFailed(q)

C13_SmsSendFailure ==
    \A s \in Slots : C13_Case(req[s]) => IsSmsDispatchError(req[s].resp)

\* a failed SMS send has been answered outside production
C13_Witness ==
    \E s \in Slots :
        /\ C13_Case(req[s])
        /\ config.NODE_ENV = "development"
        /\ IsSmsDispatchError(req[s].resp)

-----------------------------------------------------------------------------
(* C14: issue(EMAIL, e) with a valid email and a working store succeeds     *)
(* when no email channel is configured, in every mode: the send is skipped  *)
(* and the absence of the channel is never an error.                        *)

\* q is an email issue request that found the store working and no SendGrid key
C14_Case(q) ==
    /\ q.pc = "done"
    /\ q.op = "send-email-otp"
    /\ ~config.sendGridApiKey
    /\ q.rec # 0
    /\ \A k \in 1..Len(q.trace) : q.trace[k][2] = "ok"

SendSkipped(q) == \A k \in 1..Len(q.trace) : q.trace[k][1] # "send"

IsEmailNotConfigured(resp) ==
    resp.status = 500 /\ resp.error = "Email service not configured"

\* C14 as stated: success in every mode
C14_AsStated ==
    \A s \in Slots :
        C14_Case(req[s]) => req[s].resp.success /\ SendSkipped(req[s])

\* C14 amended: success outside production; in production the request is
\* answered 'Email service not configured', after its row was inserted
C14_NoEmailChannel ==
    \A s \in Slots :
        LET q == req[s]
        IN  C14_Case(q)
            => /\ SendSkipped(q)
               /\ IF config.NODE_ENV = "production"
                  THEN IsEmailNotConfigured(q.resp) /\ q.rec \in Ids
                  ELSE q.resp.success

\* both answers have been given: success in a mode that is not production...
C14_Witness ==
    \E s \in Slots :
        /\ C14_Case(req[s])
        /\ config.NODE_ENV = "test"
        /\ req[s].resp.success
        /\ SendSkipped(req[s])

\* ...and the error in production
C14_WitnessProduction ==
    \E s \in Slots :
        /\ C14_Case(req[s])
        /\ config.NODE_ENV = "production"
        /\ IsEmailNotConfigured(req[s].resp)

-----------------------------------------------------------------------------
(* C15: when the insert of the new row fails during an issue request, the   *)
(* request answers StorageError and hands nothing to a notification         *)
(* channel.                                                                 *)

InsertFailed(q) == \E k \in 1..Len(q.trace) : q.trace[k] = <<"insert", "error">>

IsStorageError(resp) ==
    /\ resp.status = 500
    /\ resp.error \in {"Failed to generate verification code", "Failed to verify code"}

C15_Case(q) == IssueAnswered(q) /\ InsertFailed(q)

C15_InsertFailure ==
    \A s \in Slots :
        C15_Case(req[s])
        => /\ IsStorageError(req[s].resp)
           /\ SendSkipped(req[s])
           /\ req[s].rec = 0

\* the insert of an email issue request has failed where a send was due
C15_Witness ==
    \E s \in Slots :
        /\ C15_Case(req[s])
        /\ req[s].op = "send-email-otp"
        /\ config.sendGridApiKey
        /\ IsStorageError(req[s].resp)
        /\ SendSkipped(req[s])

-----------------------------------------------------------------------------
(* C16: the answer to a verify request with a well-formed code does not     *)
(* reveal why verification did not succeed: a wrong code, a correct but     *)
(* expired code, a code already used and a destination with no row get the  *)
(* same InvalidOrExpired answer, so the answers do not tell whether the     *)
(* submitted code is the code of a stored row.                              *)

\* q passed the checks of its body and was not answered verified:true
C16_Failed(q) == VerifyDone(q) /\ ~IsVerified(q.resp)

InvalidOrExpiredAnswer == Failure(400, "Invalid or expired verification code")

\* the four ways of the claim
WrongCode(q) ==
    /\ \E i \in Own(q) : Live(q, i)
    /\ \A i \in Own(q) : q.pre.store[i].otp_code # q.otp
ExpiredCode(q) ==
    \E i \in Own(q) : /\ ~q.pre.store[i].verified
                      /\ q.pre.store[i].otp_code = q.otp
                      /\ q.at >= q.pre.store[i].expires_at
UsedCode(q) ==
    \E i \in Own(q) : q.pre.okCount[i] >= 1 /\ q.pre.store[i].otp_code = q.otp
NoRecord(q) == Own(q) = {}

\* q submitted the code of a live row
LiveMatch(q) == \E i \in Own(q) : Live(q, i) /\ q.pre.store[i].otp_code = q.otp

\* q submitted the code of a live row whose attempts had reached 5
LockedMatch(q) ==
    \E i \in Own(q) : /\ Live(q, i)
                      /\ q.pre.store[i].otp_code = q.otp
                      /\ q.pre.store[i].attempts >= 5

\* C16 as stated: every verify that did not succeed is answered alike
C16_AsStated ==
    \A s \in Slots :
        C16_Failed(req[s]) => req[s].resp = InvalidOrExpiredAnswer

\* C16 amended: alike but for the code of a live row with 5 attempts or
\* more, which is answered MaxAttemptsExceeded
C16_GenericFailure ==
    \A s \in Slots :
        LET q == req[s]
        IN  /\ C16_Failed(q)
               => IF LockedMatch(q)
                  THEN IsMaxAttemptsExceeded(q.resp)
                  ELSE q.resp = InvalidOrExpiredAnswer
            /\ VerifyDone(q) /\ ~LiveMatch(q)
               /\ (WrongCode(q) \/ ExpiredCode(q) \/ UsedCode(q) \/ NoRecord(q))
               => q.resp = InvalidOrExpiredAnswer

\* the code of a row has been refused after its expiry as a wrong code is
C16_Witness ==
    \E s \in Slots :
        /\ C16_Failed(req[s])
        /\ ExpiredCode(req[s])
        /\ ~UsedCode(req[s])
        /\ req[s].resp = InvalidOrExpiredAnswer

-----------------------------------------------------------------------------
(* C17: for every non-empty input the result of the phone normalizer is a   *)
(* '+' followed only by ASCII digits: every character other than digits     *)
(* and a leading '+' is removed, and '+1' is prepended exactly when the     *)
(* stripped string does not start with '+'; "(555) 123-4567" gives          *)
(* "+15551234567" and "+44 20 7946 0958" gives "+442079460958".             *)

PlusThenDigits(s) ==
    /\ Len(s) >= 1
    /\ s[1] = "+"
    /\ \A k \in 2..Len(s) : s[k] \in Digit

Digits(s) == SelectSeq(s, LAMBDA c : c \in Digit)

\* the phone issue request q has normalized its input
Normalized(q) == q.op = "send-phone-otp" /\ q.formattedPhone # NULL

C17_PhoneNormalizer ==
    \A s \in Slots :
        LET q == req[s]
        IN  Normalized(q)
            => /\ PlusThenDigits(q.formattedPhone)
               /\ Digits(q.formattedPhone) \in {Digits(q.phone), <<"1">> \o Digits(q.phone)}
               /\ q.phone = PhoneUS
                  => q.formattedPhone = <<"+", "1", "5", "5", "5", "1", "2", "3",
                                          "4", "5", "6", "7">>
               /\ q.phone = PhoneUK
                  => q.formattedPhone = <<"+", "4", "4", "2", "0", "7", "9", "4",
                                          "6", "0", "9", "5", "8">>

-----------------------------------------------------------------------------
(* C18: two issue requests for one (kind, destination) that interleave      *)
(* their invalidate and insert steps can end with two rows of that (kind,   *)
(* destination) both unverified and unexpired; verify then accepts the code *)
(* of either row.                                                           *)

\* q has marked row m
Marked(q, m) ==
    q.rec = m /\ \E k \in 1..Len(q.trace) : q.trace[k] = <<"mark", "ok">>

\* no other verify request has marked a row since q arrived
NotOvertaken(q) ==
    \A m \in 1..Len(q.pre.store) :
        okCount[m] = q.pre.okCount[m] + (IF Marked(q, m) THEN 1 ELSE 0)

\* two issue requests have left the rows i and j of one (kind, destination)
\* both live when the verify request q arrived, no later issue request has
\* invalidated them, and q submits the code of i
C18_Case(q, i, j) ==
    /\ VerifyDone(q)
    /\ NotOvertaken(q)
    /\ {i, j} \subseteq Own(q)
    /\ i # j
    /\ Live(q, i)
    /\ Live(q, j)
    /\ \A m \in {i, j} : store[m].verified => Marked(q, m)
    /\ q.pre.store[i].attempts < 5
    /\ q.pre.store[j].attempts < 5
    /\ q.otp = q.pre.store[i].otp_code

C18_EitherCodeAccepted ==
    \A s \in Slots : \A i, j \in Ids :
        C18_Case(req[s], i, j)
        => /\ IsVerified(req[s].resp)
           /\ store[req[s].rec].otp_code = req[s].otp
           /\ store[req[s].rec].verified

\* the code of the older of the two rows has been accepted
C18_Witness ==
    \E s \in Slots : \E i, j \in Ids :
        /\ C18_Case(req[s], i, j)
        /\ i < j
        /\ store[i].otp_code # store[j].otp_code
        /\ IsVerified(req[s].resp)
        /\ req[s].rec = i
        /\ store[i].verified

\* and so has the code of the newer row, after the older one
C18_WitnessBoth ==
    \E s \in Slots : \E i, j \in Ids :
        /\ VerifyDone(req[s])
        /\ i < j
        /\ store[i].otp_code # store[j].otp_code
        /\ okCount[i] = 1
        /\ okCount[j] = 1
        /\ req[s].rec = j
        /\ IsVerified(req[s].resp)

-----------------------------------------------------------------------------
(* C19: when the invalidation update of an issue request fails, the request *)
(* still inserts the new row, dispatches the code and answers success; the  *)
(* earlier unverified rows of the (kind, destination) stay unverified, so   *)
(* the earlier code is still accepted by verify until it expires.           *)

\* the invalidation of the issue request q failed, its insert and send did not
C19_Issue(q) ==
    /\ IssueAnswered(q)
    /\ Len(q.trace) = 3
    /\ q.trace[1] = <<"invalidate", "error">>
    /\ q.trace[2] = <<"insert", "ok">>
    /\ q.trace[3] = <<"send", "ok">>

\* the verify request q, whose awaited calls succeeded, submits the code of
\* the live row i, which is older than another unverified row of its
\* (kind, destination)
C19_Verify(q, i) ==
    /\ VerifyDone(q)
    /\ \A k \in 1..Len(q.trace) : q.trace[k][2] = "ok"
    /\ i \in Own(q)
    /\ \E j \in OwnUnverified(q) : i < j /\ q.pre.store[j].otp_code # q.otp
    /\ Live(q, i)
    /\ q.pre.store[i].attempts < 5
    /\ q.otp = q.pre.store[i].otp_code

C19_InvalidationFailure ==
    \A s \in Slots :
        LET q == req[s]
        IN  /\ C19_Issue(q)
               => /\ q.resp.success
                  /\ q.rec = Len(q.pre.store) + 1
                  /\ ~store[q.rec].verified
                  /\ \A i \in 1..Len(q.pre.store) : store[i] = q.pre.store[i]
            /\ \A i \in Ids :
                  C19_Verify(q, i)
                  => /\ IsVerified(q.resp)
                     /\ q.rec \in Own(q)
                     /\ q.rec >= i
                     /\ store[q.rec].otp_code = q.otp
                     /\ store[q.rec].verified

\* the earlier code has been accepted after an issue request whose
\* invalidation failed
C19_Witness ==
    \E s \in Slots : \E i \in Ids :
        /\ C19_Verify(req[s], i)
        /\ req[s].rec = i
        /\ issued[i] = "ok"
        /\ IsVerified(req[s].resp)
        /\ store[i].verified

\* an issue request whose invalidation failed has been answered with success
\* and has left an earlier row unverified
C19_WitnessIssue ==
    \E s \in Slots :
        /\ C19_Issue(req[s])
        /\ OwnUnverified(req[s]) # {}
        /\ req[s].resp.success

-----------------------------------------------------------------------------
(* C20: a verify request that finds no matching live row answers            *)
(* InvalidOrExpired whether the lookup of the most recent unverified row    *)
(* and the update of its attempts succeed or fail; when they fail, attempts *)
(* is left unchanged and the failure is not reported to the caller.         *)

\* the lookup of q succeeded and found no live row with the code of q
C20_Case(q) ==
    /\ VerifyDone(q)
    /\ q.trace[1] = <<"query", "ok">>
    /\ ~LiveMatch(q)

\* the second lookup of q or its update of attempts failed
CountingFailed(q) ==
    \E k \in 1..Len(q.trace) :
        q.trace[k] \in {<<"attempt-query", "error">>, <<"update-attempts", "error">>}

C20_BestEffortCount ==
    \A s \in Slots :
        LET q == req[s]
        IN  C20_Case(q)
            => /\ q.resp = InvalidOrExpiredAnswer
               /\ store = IF CountingFailed(q) THEN q.pre.store ELSE C7_Counted(q)

\* the update of attempts has failed on a row and the caller has not been told
C20_Witness ==
    \E s \in Slots :
        /\ C20_Case(req[s])
        /\ OwnUnverified(req[s]) # {}
        /\ req[s].trace[Len(req[s].trace)] = <<"update-attempts", "error">>
        /\ req[s].resp = InvalidOrExpiredAnswer
        /\ store = req[s].pre.store

-----------------------------------------------------------------------------
(* C21: within every issue request the awaited steps occur in the order     *)
(* invalidate, insert, dispatch, each at most once; the code is handed to   *)
(* the channel only after the insert of the row holding that code for that  *)
(* destination has succeeded, and the insert is attempted only after the    *)
(* invalidation has been issued.                                            *)

IssueSteps == <<"invalidate", "insert", "send">>

\* q is an issue request, in flight or answered
IsIssue(q) == q.op \in {"send-email-otp", "send-phone-otp"}

\* the code of q has been handed to its channel
Dispatched(q) == \E k \in 1..Len(q.trace) : q.trace[k][1] = "send"

C21_IssueOrder ==
    \A s \in Slots :
        LET q == req[s]
        IN  IsIssue(q)
            => /\ Len(q.trace) <= Len(IssueSteps)
               /\ \A k \in 1..Len(q.trace) : q.trace[k][1] = IssueSteps[k]
               /\ Dispatched(q)
                  => /\ q.trace[2] = <<"insert", "ok">>
                     /\ q.rec \in Ids
                     /\ store[q.rec].type = q.type
                     /\ RowDest(store[q.rec]) = ReqDest(q)
                     /\ store[q.rec].otp_code = q.code

\* a request has gone through the three steps while another is in flight
C21_Witness ==
    \E s, t \in Slots :
        /\ IsIssue(req[s])
        /\ Dispatched(req[s])
        /\ Len(req[s].trace) = 3
        /\ req[s].trace[1][2] = "error"
        /\ req[s].rec \in Ids
        /\ store[req[s].rec].otp_code = req[s].code
        /\ IsIssue(req[t])
        /\ req[t].pc \notin {"idle", "done"}

-----------------------------------------------------------------------------
(* C22: once attempts of a row has reached 5, no verify request, in any     *)
(* interleaving with other verify requests on the same (kind, destination), *)
(* sets the row verified by genuine verification; the row leaves PENDING    *)
(* only through the invalidation of a later issue request.                  *)

\* row i goes from unverified to verified by the mark of a verify request
GenuinelyVerified(i) ==
    ~store[i].verified /\ store'[i].verified /\ okCount'[i] = okCount[i] + 1

C22_Step ==
    \A i \in Ids : store[i].attempts >= MAX_OTP_ATTEMPTS => ~GenuinelyVerified(i)

C22_LockedOutForGood == [][C22_Step]_vars

-----------------------------------------------------------------------------
(* C23: every issue or verify request for a (kind, destination) reads and   *)
(* changes only rows of that kind and that destination: verified, attempts  *)
(* and otp_code of every row of another destination or of the other kind    *)
(* are unchanged by it, and every row carries exactly the destination field *)
(* of its kind (email for an email row, phone for a phone row).             *)

\* row has the kind and the destination of the request q
OwnRow(q, row) == row.type = q.type /\ RowDest(row) = ReqDest(q)

\* a row carries the destination field of its kind and not the other one
RowShape(row) ==
    /\ row.type \in {"email", "phone"}
    /\ row.type = "email" => row.email # NULL /\ row.phone = NULL
    /\ row.type = "phone" => row.phone # NULL /\ row.email = NULL

\* rows i of the store that the step has changed or added
Touched ==
    {i \in 1..Len(store') : i > Len(store) \/ store'[i] # store[i]}

\* the step is taken by the request in slot s
StepOf(s) == req'[s] # req[s] /\ \A t \in Slots \ {s} : req'[t] = req[t]

C23_Step ==
    /\ Len(store') >= Len(store)
    /\ \A i \in 1..Len(store') : RowShape(store'[i])
    /\ Touched # {}
       => \E s \in Slots :
            /\ StepOf(s)
            /\ \A i \in Touched : OwnRow(req'[s], store'[i])
    /\ \A s \in Slots :
         StepOf(s) /\ req'[s].rec # 0 => OwnRow(req'[s], store'[req'[s].rec])

C23_Frame == [][C23_Step]_vars

\* a verify request has marked a row while an unverified row of another
\* destination of the same kind and one of the other kind stand untouched
C23_Witness ==
    \E s \in Slots : \E i, j \in Ids :
        /\ VerifyDone(req[s])
        /\ IsVerified(req[s].resp)
        /\ req[s].rec \notin {i, j}
        /\ store[i].type = req[s].type
        /\ RowDest(store[i]) # ReqDest(req[s])
        /\ store[j].type # req[s].type
        /\ store[i] = req[s].pre.store[i]
        /\ store[j] = req[s].pre.store[j]
        /\ ~store[i].verified
        /\ ~store[j].verified

-----------------------------------------------------------------------------
(* C24: an issue request that fails after its insert (a failed SMS send in  *)
(* any mode, a failed email send or a missing email channel in production)  *)
(* leaves its effects in the store: the earlier rows of its (kind,          *)
(* destination) stay invalidated and the row it inserted stays unverified   *)
(* and unexpired, so a verify request submitting the code of that row       *)
(* before expiry answers verified:true although the issuance was answered   *)
(* with a failure.                                                          *)

\* the issue request q has inserted its row and has been answered a failure
FailedAfterInsert(q) == IssueDone(q) /\ ~q.resp.success

\* the verify request q submits the code of row i, live with attempts below
\* 5, whose issue request was answered a failure
C24_Verify(q, i) ==
    /\ VerifyDone(q)
    /\ i \in Own(q)
    /\ issued[i] = "failed"
    /\ Live(q, i)
    /\ q.pre.store[i].attempts < MAX_OTP_ATTEMPTS
    /\ q.otp = q.pre.store[i].otp_code

C24_FailedIssueStays ==
    \A s \in Slots :
        LET q == req[s]
        IN  /\ FailedAfterInsert(q)
               => /\ \/ q.type = "phone" /\ SendFailed(q) /\ IsSmsDispatchError(q.resp)
                     \/ /\ q.type = "email"
                        /\ config.NODE_ENV = "production"
                        /\ \/ SendFailed(q) /\ IsEmailDispatchError(q.resp)
                           \/ SendSkipped(q) /\ IsEmailNotConfigured(q.resp)
                  /\ q.rec = Len(q.pre.store) + 1
                  /\ store[q.rec] =
                         Row(q.type, q.email, q.formattedPhone, q.code,
                             q.at + OTP_EXPIRY_MINUTES)
                  /\ \A i \in 1..Len(q.pre.store) :
                         store[i] = IF i \in Own(q)
                                    THEN [q.pre.store[i] EXCEPT !.verified = TRUE]
                                    ELSE q.pre.store[i]
            /\ \A i \in Ids :
                  C24_Verify(q, i)
                  => /\ IsVerified(q.resp)
                     /\ q.rec = i
                     /\ store[i].verified

\* the code of an issuance answered with a failure has been accepted, after
\* that issuance had invalidated an earlier row
C24_Witness ==
    \E s \in Slots : \E i \in Ids :
        /\ C24_Verify(req[s], i)
        /\ i > 1
        /\ RowDest(store[i - 1]) = RowDest(store[i])
        /\ okCount[i - 1] = 0
        /\ store[i - 1].verified
        /\ IsVerified(req[s].resp)
        /\ store[i].verified

\* an issue request answered with a failure has invalidated an earlier row and
\* left the row it inserted unverified
C24_WitnessIssue ==
    \E s \in Slots :
        /\ FailedAfterInsert(req[s])
        /\ OwnUnverified(req[s]) # {}
        /\ ~store[req[s].rec].verified

=============================================================================
